---------------------------- MODULE Spec2Model ----------------------------
(***************************************************************************)
(* Daily-content services of coachastralhoroscopo.                         *)
(*                                                                         *)
(*   horoscopoDiario.py     /api/horoscope/today, /daily, /advice          *)
(*   horoscopoDetallado.py  /api/horoscope/detailed/today                  *)
(*   tarotdiario.py         /api/tarot and _draw_tarot_numbers             *)
(*   articuloastro.py       /daily-astrology-article                       *)
(*   LaLunaDeHoy.py         /moon-today and normalize_lunar_metrics        *)
(*                                                                         *)
(* Spec      the four horoscope endpoints: in-memory day cache guarding a  *)
(*           fan-out of one task per sign on a bounded thread pool.        *)
(* SpecTarot the tarot endpoint: file cache per (day, device), the draw,   *)
(*           FactSource and Rewriter calls.                                *)
(* SpecDraw  _draw_tarot_numbers called on its own, in both modes.         *)
(* SpecKey   _safe_device_id and _cache_path called on their own.          *)
(* SpecArticle the article endpoint served by two threads, with its file   *)
(*           cache.                                                        *)
(* SpecRace  horoscope requests served by two threads at the same time.    *)
(* SpecCache the endpoints /daily, /advice and /detailed/today serving     *)
(*           requests one after the other.                                 *)
(* SpecSteps the two endpoints with a file cache, article and tarot, on    *)
(*           one day, with the steps each request has taken.               *)
(* SpecTranslate translate_sections_to_es and _translate_tarot_to_es       *)
(*           called on their own, for every kind of reply of the Rewriter. *)
(* SpecMoon  the /moon-today endpoint, which normalises the lunar metrics. *)
(* SpecExtract extract_advice_and_truth called on texts of the FactSource. *)
(*                                                                         *)
(* src/horoscopoDiario.py line 216 is indented by three spaces inside a    *)
(* try block; the model reads it as the statement of that try block, as    *)
(* the identical handlers at lines 374-377 and 400-403 are written.        *)
(***************************************************************************)
EXTENDS Integers, Sequences, FiniteSets, TLC

(***************************************************************************)
(* Bounds of the model.                                                    *)
(***************************************************************************)
\* number of signs in SIGNS_ES (the source lists 12)
NumSigns == 3
\* width of the thread pool (the source uses max_workers=8)
MaxWorkers == 2
\* calendar days the clock runs through
MaxDay == 2
\* requests served in one behaviour
MaxReqs == 2
\* cards of the deck (the source draws from range(1, 79): 78 cards)
DeckSize == 4
\* values a live draw may consume beyond the three it keeps
MaxRedraws == 1

VARIABLES
    today,          \* the calendar day datetime.now(ZoneInfo(TZ_NAME)) falls on
    env,            \* credentials read from the environment at import time
    CACHE,          \* horoscopoDiario.CACHE: key -> entry
    CACHE_DETAILED, \* horoscopoDetallado.CACHE_DETAILED: date_key -> entry
    req,            \* the request being handled: endpoint, force, date_key, phase
    task,           \* state of each sign's future in the executor
    runs,           \* how many times each sign's task was started
    signs_out,      \* the mapping the builder fills from as_completed
    failure,        \* what f.result() raised and the endpoint saw, "none" if nothing
    factCalls,      \* signs whose FactSource network call was made by this request
    rewCalls,       \* signs whose Rewriter call was made by this request
    resp,           \* the response of the request
    nreq,           \* requests received so far
    files,          \* tarotdiario: the cache files under CACHE_DIR, path -> content
    treq,           \* the /api/tarot request being handled
    tresp,          \* its response
    draws,          \* non-live calls of _draw_tarot_numbers: (day, device) -> results
    firstNums,      \* numbers_used of the first non-live answer per (day, device)
    keyed,          \* the calls of _cache_path made so far: day, device_id, path
    afiles,         \* articuloastro: /tmp/cache_articuloastro_<date>.json, by date
    areq,           \* the /daily-astrology-article request of each server thread
    race,           \* horoscope requests served at the same time, by thread
    rlast,          \* the last assignment to a horoscope cache: endpoint, key, request
    pcall,          \* the last call of a function called on its own: input, output
    handled,        \* how each translate function has dealt with Rewriter failures
    mreq            \* LaLunaDeHoy: the /moon-today request being handled

hvars == <<today, env, CACHE, CACHE_DETAILED, req, task, runs, signs_out,
           failure, factCalls, rewCalls, resp, nreq>>

tvars == <<files, treq, tresp, draws, firstNums>>

avars == <<afiles, areq>>

rvars == <<race, rlast>>

pvars == <<pcall, handled, mreq>>

xvars == <<keyed, avars, rvars, pvars>>

vars == <<hvars, tvars, xvars>>

(***************************************************************************)
(* Configuration and constants of the two horoscope modules.               *)
(***************************************************************************)
SIGNS_ES == 1 .. NumSigns

Days == 1 .. MaxDay

Endpoints == {"today", "daily", "advice", "detailed"}

\* ASTRO_USER_ID/ASTRO_API_KEY and OPENAI_API_KEY present or empty
Envs == {[astro |-> TRUE, openai |-> TRUE],
         [astro |-> FALSE, openai |-> TRUE],
         [astro |-> TRUE, openai |-> FALSE]}

NoEntry == [absent |-> TRUE]

NoResp == [none |-> TRUE]

\* today_key_and_label: the date key of the current day
today_key_and_label == today

\* the key an endpoint uses in its cache
CacheKeyNoDate(ep, date_key) ==
    CASE ep = "today" -> <<"", 1>>
      [] ep = "daily" -> <<"daily:", 1>>
      [] ep = "advice" -> <<"advice:", 1>>
      [] ep = "detailed" -> <<"", 1>>

CacheKey(ep, date_key) ==
    CASE ep = "today" -> <<"", date_key>>
      [] ep = "daily" -> <<"daily:", date_key>>
      [] ep = "advice" -> <<"advice:", date_key>>
      [] ep = "detailed" -> <<"", date_key>>

CacheKeys == {"", "daily:", "advice:"} \X Days

\* `key in CACHE` and CACHE[key], per endpoint
CacheGet(ep, date_key) ==
    IF ep = "detailed" THEN CACHE_DETAILED[date_key]
    ELSE CACHE[CacheKey(ep, date_key)]

\* the dictionary a builder returns: "_cached": False, the date and the signs
EntryFlagged(date_key, signs, gen) ==
    [_cached |-> TRUE, date_key |-> date_key, signs |-> signs, gen |-> gen]

Entry(date_key, signs, gen) ==
    [_cached |-> FALSE, date_key |-> date_key, signs |-> signs, gen |-> gen]

(***************************************************************************)
(* One per-sign task: build_one_sign_daily, build_one_sign_advice_truth,   *)
(* build_one_sign_detailed.  A future ends in one of                       *)
(*   "ok"             the (sign_es, data) tuple is returned                *)
(*   "fetch_failed"   astrology_*_daily raised                             *)
(*   "rewrite_failed" the OpenAI call of the translate function raised     *)
(* and the exception a failed future holds is one of                       *)
(*   "cfg"   RuntimeError("Faltan ASTRO_USER_ID o ASTRO_API_KEY ...")      *)
(*   "quota" RuntimeError("AstrologyAPI error ...") whose text holds       *)
(*           TRIAL_REQUEST_LIMIT_EXCEEDED                                  *)
(*   "http"  RuntimeError("AstrologyAPI error ...") for another status>=400*)
(*   "conn"  requests raised (connection error, timeout, undecodable body):*)
(*           an exception that is no RuntimeError                          *)
(*   "rew"   an openai exception: no RuntimeError either                   *)
(* Which exception a failed fetch holds is drawn where it is looked at, in *)
(* the except clause of the endpoint: the futures nobody asks keep theirs  *)
(* unobserved.                                                             *)
(***************************************************************************)
Failures == {"cfg", "quota", "http", "conn", "rew"}

Outcomes == {"ok", "fetch_failed", "rewrite_failed"}

\* astrology_*_daily checks the credentials before requests.post;
\* translate_es_strict / translate_sections_to_es call OpenAI only with a key
TaskOutcomes(e) ==
    IF ~e.astro THEN {"fetch_failed"}
    ELSE {"ok", "fetch_failed"} \cup (IF e.openai THEN {"rewrite_failed"} ELSE {})

\* requests.post is reached whenever the credentials are present
FactCalled(o, e) == e.astro

\* client.chat.completions.create was reached
RewCalled(o, e) == o \in {"ok", "rewrite_failed"} /\ e.openai

IsRuntimeError(x) == x \in {"cfg", "quota", "http"}

\* the key under which a task's result is stored: the sign_es it returns
TaskKeyLast(s) == NumSigns

TaskResultKey(s) == s

\* f.result(): the value of a finished future, or its exception re-raised
f_result_swallow(o) == "none"

f_result(o) == IF o = "ok" THEN "none" ELSE o

\* the exceptions a failed future can hold
ExceptionOf(o, e) ==
    CASE o = "fetch_failed" -> IF e.astro THEN {"quota", "http", "conn"} ELSE {"cfg"}
      [] o = "rewrite_failed" -> {"rew"}
      [] OTHER -> {}

\* ThreadPoolExecutor.__exit__: shutdown(wait=True) returns once no future
\* is queued or running
executor_exit_nowait(t) == TRUE

executor_exit(t) == \A s \in SIGNS_ES : t[s] \notin {"queued", "running"}

\* The pool: ex.submit starts a worker thread while fewer than max_workers
\* exist, and a worker that ends a task takes the next one of the FIFO queue.
\* Taking a task and entering it is one step: nothing is visible in between.
Running(t) == {q \in SIGNS_ES : t[q] = "running"}

Queued(t) == {q \in SIGNS_ES : t[q] = "queued"}

NextQueued(t) == CHOOSE q \in Queued(t) : \A r \in Queued(t) : q <= r

worker_take(t) ==
    IF Queued(t) # {} /\ Cardinality(Running(t)) < MaxWorkers
    THEN [t EXCEPT ![NextQueued(t)] = "running"]
    ELSE t

submit_all_unbounded == [s \in SIGNS_ES |-> "running"]

\* the futures after `futures = [ex.submit(...) for s in SIGNS_ES]`
submit_all ==
    [s \in SIGNS_ES |-> IF s <= MaxWorkers THEN "running" ELSE "queued"]

\* the test that serves a request from the cache
CacheHitNever(ep, force, date_key) == FALSE

CacheHitIgnoresForce(ep, force, date_key) ==
    CacheGet(ep, date_key) # NoEntry

CacheHit(ep, force, date_key) ==
    /\ ~force
    /\ CacheGet(ep, date_key) # NoEntry

\* the except clauses of the four endpoints
ErrorResponse(ep, o, date_key) ==
    IF ~IsRuntimeError(o)
    THEN \* not caught: Flask answers with its own 500 page
         [status |-> 500, error |-> "UNHANDLED", structured |-> FALSE,
          _cached |-> FALSE, date_key |-> date_key, signs |-> {}, gen |-> 0]
    ELSE IF ep \in {"today", "detailed"}
    THEN IF o = "quota"
         THEN [status |-> 429, error |-> "ASTRO_TRIAL_LIMIT", structured |-> TRUE,
               _cached |-> FALSE, date_key |-> date_key, signs |-> {}, gen |-> 0]
         ELSE [status |-> 500, error |-> "SERVER_ERROR", structured |-> TRUE,
               _cached |-> FALSE, date_key |-> date_key, signs |-> {}, gen |-> 0]
    ELSE [status |-> 500, error |-> "API_ERROR", structured |-> TRUE,
          _cached |-> FALSE, date_key |-> date_key, signs |-> {}, gen |-> 0]

\* cached = dict(CACHE[key]); cached["_cached"] = True: the flag is set on a
\* copy, and the stored entry is after the hit what it was
stored_after_hit_alias(entry) == [entry EXCEPT !._cached = TRUE]

stored_after_hit(entry) == entry

\* result = build_...(date_key, date_label); CACHE[key] = result: the
\* assignment is not reached when the builder raises, whatever it had
\* collected
cache_after_raise_partial(old, partial) == partial

cache_after_raise(old, partial) == old

\* the timeout argument of an outbound call
NoTimeout == [explicit |-> FALSE]

Timeout(seconds) == [explicit |-> TRUE, seconds |-> seconds]

\* requests.post(url, auth=..., json=payload, timeout=20) in
\* astrology_consolidated_daily, astrology_daily_prediction and
\* astrology_prediction_daily
fact_call_timeout(ep) == Timeout(20)

\* client.chat.completions.create(model=..., temperature=..., messages=...)
\* in translate_es_strict and translate_sections_to_es
rewriter_call_timeout(ep) == NoTimeout

OkResponse(entry, cached) ==
    [status |-> 200, error |-> "", structured |-> TRUE, _cached |-> cached,
     date_key |-> entry.date_key, signs |-> entry.signs, gen |-> entry.gen]

IdleReq == [phase |-> "idle", ep |-> "today", force |-> FALSE, date_key |-> 1,
            pre |-> NoEntry]

HoroInit ==
    /\ CACHE = [k \in CacheKeys |-> NoEntry]
    /\ CACHE_DETAILED = [d \in Days |-> NoEntry]
    /\ req = IdleReq
    /\ task = [s \in SIGNS_ES |-> "idle"]
    /\ runs = [s \in SIGNS_ES |-> 0]
    /\ signs_out = {}
    /\ failure = "none"
    /\ factCalls = {}
    /\ rewCalls = {}
    /\ resp = NoResp

\* the clock passes midnight.  A handler reads the clock once, on arrival, so
\* a change of day during a request is the same as one right after it.
Tick ==
    /\ req.phase = "idle"
    /\ today < MaxDay
    /\ today' = today + 1
    /\ UNCHANGED <<tvars, xvars>>
    /\ UNCHANGED <<env, CACHE, CACHE_DETAILED, req, task, runs, signs_out,
                   failure, factCalls, rewCalls, resp, nreq>>

\* a request arrives and is served from the cache:
\*   cached = dict(CACHE[key]); cached["_cached"] = True; return jsonify(cached)
ApiCacheHit(ep, force) ==
    LET date_key == today_key_and_label IN
    /\ req.phase = "idle"
    /\ nreq < MaxReqs
    /\ CacheHit(ep, force, date_key)
    /\ nreq' = nreq + 1
    /\ req' = [phase |-> "done", ep |-> ep, force |-> force,
               date_key |-> date_key,
               pre |-> IF ep = "detailed" THEN CACHE_DETAILED[date_key]
                       ELSE CACHE[CacheKey(ep, date_key)]]
    /\ resp' = [OkResponse(CacheGet(ep, date_key), FALSE) EXCEPT !._cached = TRUE]
    /\ task' = [s \in SIGNS_ES |-> "idle"]
    /\ runs' = [s \in SIGNS_ES |-> 0]
    /\ signs_out' = {}
    /\ failure' = "none"
    /\ factCalls' = {}
    /\ rewCalls' = {}
    /\ IF ep = "detailed"
       THEN /\ CACHE_DETAILED' = [CACHE_DETAILED EXCEPT
                                    ![date_key] = stored_after_hit(@)]
            /\ CACHE' = CACHE
       ELSE /\ CACHE' = [CACHE EXCEPT
                           ![CacheKey(ep, date_key)] = stored_after_hit(@)]
            /\ CACHE_DETAILED' = CACHE_DETAILED
    /\ UNCHANGED <<tvars, xvars>>
    /\ UNCHANGED <<today, env>>

\* a request arrives and the builder is entered: every sign is submitted,
\*   futures = [ex.submit(build_one_sign..., s, ...) for s in SIGNS_ES]
ApiCacheMiss(ep, force) ==
    LET date_key == today_key_and_label IN
    /\ req.phase = "idle"
    /\ nreq < MaxReqs
    /\ ~CacheHit(ep, force, date_key)
    /\ nreq' = nreq + 1
    /\ req' = [phase |-> "collect", ep |-> ep, force |-> force,
               date_key |-> date_key,
               pre |-> IF ep = "detailed" THEN CACHE_DETAILED[date_key]
                       ELSE CACHE[CacheKey(ep, date_key)]]
    /\ resp' = NoResp
    /\ task' = submit_all
    /\ runs' = [s \in SIGNS_ES |-> IF submit_all[s] = "running" THEN 1 ELSE 0]
    /\ signs_out' = {}
    /\ failure' = "none"
    /\ factCalls' = {}
    /\ rewCalls' = {}
    /\ UNCHANGED <<tvars, xvars>>
    /\ UNCHANGED <<today, env, CACHE, CACHE_DETAILED>>

\* the futures and the start counts once task s has ended with outcome o and
\* main has handled it or not
AfterTask(s, st) == worker_take([task EXCEPT ![s] = st])

StartsAfter(t) ==
    [q \in SIGNS_ES |->
        IF task[q] = "queued" /\ t[q] = "running" THEN runs[q] + 1 ELSE runs[q]]

\* A running task returns or raises while main waits in
\*   for f in as_completed(futures):
\*       sign_es, data = f.result(); signs_out[sign_es] = data
\* as_completed hands the future over as it completes; completing and being
\* handed over are one step.  The loop ends with the last future, or by the
\* exception f.result() re-raises.
Collect(s, o) ==
    /\ req.phase = "collect"
    /\ task[s] = "running"
    /\ o \in TaskOutcomes(env)
    /\ LET exc == f_result(o) IN
       IF exc = "none"
       THEN /\ signs_out' = IF o = "ok"
                            THEN signs_out \cup {TaskResultKey(s)}
                            ELSE signs_out
            /\ task' = AfterTask(s, IF o = "ok" THEN "taken" ELSE o)
            /\ failure' = failure
            /\ req' = IF \A q \in SIGNS_ES \ {s} : task[q] \notin {"queued", "running"}
                      THEN [req EXCEPT !.phase = "shutdown"]
                      ELSE req
       ELSE /\ failure' = exc
            /\ task' = AfterTask(s, o)
            /\ req' = [req EXCEPT !.phase = "shutdown"]
            /\ signs_out' = signs_out
    /\ runs' = StartsAfter(task')
    /\ factCalls' = IF FactCalled(o, env) THEN factCalls \cup {s} ELSE factCalls
    /\ rewCalls' = IF RewCalled(o, env) THEN rewCalls \cup {s} ELSE rewCalls
    /\ UNCHANGED <<tvars, xvars>>
    /\ UNCHANGED <<today, env, CACHE, CACHE_DETAILED, resp, nreq>>

\* A running task returns or raises after the loop was left by an exception:
\* nobody asks this future, the pool goes on with the queue.
FinishTask(s, o) ==
    /\ req.phase = "shutdown"
    /\ task[s] = "running"
    /\ o \in TaskOutcomes(env)
    /\ task' = AfterTask(s, o)
    /\ runs' = StartsAfter(task')
    /\ factCalls' = IF FactCalled(o, env) THEN factCalls \cup {s} ELSE factCalls
    /\ rewCalls' = IF RewCalled(o, env) THEN rewCalls \cup {s} ELSE rewCalls
    /\ UNCHANGED <<tvars, xvars>>
    /\ UNCHANGED <<today, env, CACHE, CACHE_DETAILED, req, signs_out,
                   failure, resp, nreq>>

\* the with block is left with the mapping complete:
\*   result = build_...(date_key, date_label); CACHE[key] = result;
\*   return jsonify(result)
ReturnResult ==
    /\ req.phase = "shutdown"
    /\ executor_exit(task)
    /\ failure = "none"
    /\ req' = [req EXCEPT !.phase = "done"]
    /\ LET result == Entry(req.date_key, signs_out, nreq) IN
       /\ resp' = OkResponse(result, FALSE)
       /\ IF req.ep = "detailed"
          THEN /\ CACHE_DETAILED' = [CACHE_DETAILED EXCEPT ![req.date_key] = result]
               /\ CACHE' = CACHE
          ELSE /\ CACHE' = [CACHE EXCEPT ![CacheKey(req.ep, req.date_key)] = result]
               /\ CACHE_DETAILED' = CACHE_DETAILED
    /\ UNCHANGED <<tvars, xvars>>
    /\ UNCHANGED <<today, env, task, runs, signs_out, failure, factCalls,
                   rewCalls, nreq>>

\* the with block is left by the exception of a future, which the except
\* clause of the endpoint catches or not
ReturnError(exc) ==
    /\ req.phase = "shutdown"
    /\ executor_exit(task)
    /\ exc \in ExceptionOf(failure, env)
    /\ req' = [req EXCEPT !.phase = "done"]
    /\ failure' = exc
    /\ resp' = ErrorResponse(req.ep, exc, req.date_key)
    /\ LET partial == Entry(req.date_key, signs_out, nreq) IN
       IF req.ep = "detailed"
       THEN /\ CACHE_DETAILED' = [CACHE_DETAILED EXCEPT
                                    ![req.date_key] = cache_after_raise(@, partial)]
            /\ CACHE' = CACHE
       ELSE /\ CACHE' = [CACHE EXCEPT ![CacheKey(req.ep, req.date_key)] =
                                        cache_after_raise(@, partial)]
            /\ CACHE_DETAILED' = CACHE_DETAILED
    /\ UNCHANGED <<tvars, xvars>>
    /\ UNCHANGED <<today, env, task, runs, signs_out, factCalls, rewCalls, nreq>>

\* the response is sent and the locals of the handler are gone
HandlerExit ==
    /\ req.phase = "done"
    /\ req' = IdleReq
    /\ task' = [s \in SIGNS_ES |-> "idle"]
    /\ runs' = [s \in SIGNS_ES |-> 0]
    /\ signs_out' = {}
    /\ failure' = "none"
    /\ factCalls' = {}
    /\ rewCalls' = {}
    /\ resp' = NoResp
    /\ UNCHANGED <<tvars, xvars>>
    /\ UNCHANGED <<today, env, CACHE, CACHE_DETAILED, nreq>>

(***************************************************************************)
(* tarotdiario.py                                                          *)
(***************************************************************************)
Min(a, b) == IF a <= b THEN a ELSE b

\* s[:n]
Take(q, n) == SubSeq(q, 1, Min(n, Len(q)))

\* the characters c of device identifiers for which c.isalnum() holds
AlnumChars == {"a", "b", "n", "o"}

\* the device_id query parameters requests come with (<<>>: none given)
DeviceParams == {<<"a">>, <<"a", "/">>, <<>>}

\* hashlib.sha256(f"{ua}|{ip}").hexdigest()[:32] of the one request origin of
\* the model: a string of hexadecimal digits
UaIpDigest == <<"b">>

DeviceIdLimit == 128

SafeIdLimit == 64

\* _safe_device_id
safe_device_id(did) ==
    IF did # <<>> THEN Take(did, DeviceIdLimit) ELSE Take(UaIpDigest, 32)

DeviceIds == {safe_device_id(did) : did \in DeviceParams}

IsKept(c) == c \in AlnumChars \/ c \in {"-", "_"}

safe_component_uncut(device_id) ==
    LET kept == SelectSeq(device_id, IsKept) IN
    IF kept # <<>> THEN kept ELSE <<"a", "n", "o", "n">>

\* the device part of the file name built by _cache_path
safe_component(device_id) ==
    LET kept == Take(SelectSeq(device_id, IsKept), SafeIdLimit) IN
    IF kept # <<>> THEN kept ELSE <<"a", "n", "o", "n">>

\* _cache_path("tarot_daily", device_id): the day is read from the clock
cache_path(device_id) == <<today, safe_component(device_id)>>

Paths == Days \X {safe_component(d) : d \in DeviceIds}

NoFile == [absent |-> TRUE]

\* cards drawn by one call
DrawCount == 3

(***************************************************************************)
(* random.Random(seed_int).sample(range(1, 79), 3), as CPython computes    *)
(* it for a population of more than 21 elements: draw j = _randbelow(n),   *)
(* draw again while j is already selected, take population[j].             *)
(* _randbelow(n) reads n.bit_length() bits and reads again while the value *)
(* is not below n.  The generator stands for the Mersenne Twister and the  *)
(* seed for the SHA-256 of "day|device_id": a full-period congruential     *)
(* generator started from a number that (day, device_id) determine.        *)
(***************************************************************************)
RECURSIVE BitLength(_)
BitLength(n) == IF n = 0 THEN 0 ELSE 1 + BitLength(n \div 2)

RECURSIVE Pow2(_)
Pow2(k) == IF k = 0 THEN 1 ELSE 2 * Pow2(k - 1)

RngBits == BitLength(DeckSize)

RngMod == 2 * Pow2(RngBits)

CharCode(c) ==
    CASE c = "a" -> 1 [] c = "b" -> 2 [] c = "n" -> 3 [] c = "o" -> 4
      [] c = "-" -> 5 [] c = "_" -> 6 [] c = "/" -> 7

RECURSIVE StrCode(_)
StrCode(q) == IF q = <<>> THEN 0 ELSE CharCode(Head(q)) + 8 * StrCode(Tail(q))

\* int(hashlib.sha256(f"{day}|{device_id}").hexdigest(), 16)
seed_int_with_counter(day, device_id) == 64 * day + StrCode(device_id) + nreq

seed_int(day, device_id) == 64 * day + StrCode(device_id)

RngStep(x) == (5 * x + 3) % RngMod

\* getrandbits(RngBits): the high bits of the next state
RngWord(x) == x \div 2

RECURSIVE RngWords(_, _)
RngWords(x, n) ==
    IF n = 0 THEN <<>>
    ELSE <<RngWord(RngStep(x))>> \o RngWords(RngStep(x), n - 1)

\* the values _randbelow(DeckSize) returns, in order, over one period
randbelow_stream(seed) ==
    SelectSeq(RngWords(seed % RngMod, RngMod), LAMBDA r : r < DeckSize)

\* the positions of a stream at which a value is drawn that no earlier
\* position has drawn: the draws that sample does not repeat
FreshDraws(stream) ==
    {i \in 1 .. Len(stream) : \A j \in 1 .. i - 1 : stream[j] # stream[i]}

\* the k-th position of a set of positions
Kth(idx, k) == CHOOSE i \in idx : Cardinality({j \in idx : j <= i}) = k

\* sample: j = _randbelow(n) is drawn again while j is already selected, the
\* result takes population[j] = j + 1, until DrawCount values are taken
sample_with_replacement(stream) ==
    [k \in 1 .. Min(DrawCount, Len(stream)) |-> stream[k] + 1]

sample(stream) ==
    LET idx == FreshDraws(stream) IN
    [k \in 1 .. Min(DrawCount, Cardinality(idx)) |-> stream[Kth(idx, k)] + 1]

\* the streams secrets.SystemRandom() can give a live draw
LiveStreams ==
    {st \in [1 .. DrawCount + MaxRedraws -> 0 .. DeckSize - 1] :
        Len(sample(st)) = DrawCount}

\* the triples secrets.SystemRandom().sample(range(1, 79), 3) can return
LiveDraws == {sample(st) : st \in LiveStreams}

\* _draw_tarot_numbers(device_id, live): the triples (love, career, finance)
\* it can return; the day of the seed is read from the clock
draw_tarot_numbers(device_id, live) ==
    IF live
    THEN LiveDraws
    ELSE {sample(randbelow_stream(seed_int(today, device_id)))}

IdleTarot == [pc |-> "idle", live |-> FALSE, device_id |-> <<>>,
              cache_file |-> <<1, <<>>>>, day |-> 1, nums |-> <<>>, text |-> "",
              steps |-> <<>>]

NoDraws == [calls |-> 0, results |-> {}]

TarotInit ==
    /\ files = [f \in Paths |-> NoFile]
    /\ treq = IdleTarot
    /\ tresp = NoResp
    /\ draws = [k \in Days \X DeviceIds |-> NoDraws]
    /\ firstNums = [k \in Days \X DeviceIds |-> <<>>]

hpriv == <<CACHE, CACHE_DETAILED, req, task, runs, signs_out, failure,
           factCalls, rewCalls, resp>>

\* the clock passes midnight: between requests, or within one before any of
\* its three readings of the clock (the cache path, the seed, the date of the
\* result; a midnight during the translation is read as one during the fetch)
TarotTick ==
    /\ today < MaxDay
    /\ treq.pc \in {"idle", "draw", "fetch"}
    /\ today' = today + 1
    /\ UNCHANGED <<env, nreq, hpriv, xvars, tvars>>

\* the first non-live answer of a day and device is remembered
NoteAnswer(day, device_id, live, nums) ==
    IF ~live /\ firstNums[<<day, device_id>>] = <<>>
    THEN [firstNums EXCEPT ![<<day, device_id>>] = nums]
    ELSE firstNums

\* tarot_daily, lines 196-204: a request without live=1 whose cache file
\* holds an entry is answered with it
TarotCacheHit(did) ==
    LET device_id == safe_device_id(did)
        cache_file == cache_path(device_id) IN
    /\ treq.pc = "idle"
    /\ nreq < MaxReqs
    /\ files[cache_file] # NoFile
    /\ nreq' = nreq + 1
    /\ treq' = [IdleTarot EXCEPT !.pc = "done", !.device_id = device_id,
                                 !.cache_file = cache_file, !.day = today,
                                 !.steps = <<"read", "resp">>]
    /\ tresp' = [status |-> 200, body |-> files[cache_file]]
    /\ firstNums' = NoteAnswer(today, device_id, FALSE,
                               files[cache_file].numbers_used)
    /\ UNCHANGED <<today, env, hpriv, xvars, files, draws>>

\* tarot_daily, lines 196-204: live=1, or nothing cached
TarotCacheMiss(did, live) ==
    LET device_id == safe_device_id(did)
        cache_file == cache_path(device_id) IN
    /\ treq.pc = "idle"
    /\ nreq < MaxReqs
    /\ live \/ files[cache_file] = NoFile
    /\ nreq' = nreq + 1
    /\ treq' = [IdleTarot EXCEPT !.pc = "draw", !.live = live,
                                 !.device_id = device_id,
                                 !.cache_file = cache_file, !.day = today,
                                 !.steps = IF live THEN <<>> ELSE <<"read">>]
    /\ tresp' = NoResp
    /\ UNCHANGED <<today, env, hpriv, xvars, files, draws, firstNums>>

\* nums = _draw_tarot_numbers(device_id=device_id, live=live)
TarotDraw ==
    /\ treq.pc = "draw"
    /\ \E nums \in draw_tarot_numbers(treq.device_id, treq.live) :
       /\ treq' = [treq EXCEPT !.pc = "fetch", !.nums = nums]
       /\ draws' = IF treq.live THEN draws
                   ELSE [draws EXCEPT ![<<today, treq.device_id>>] =
                           [calls |-> @.calls + 1,
                            results |-> @.results \cup {nums}]]
    /\ UNCHANGED <<today, env, nreq, hpriv, xvars, files, tresp, firstNums>>

\* the exception of a failed step leaves tarot_daily, which has no handler
TarotUnhandled ==
    [status |-> 500, body |-> [error |-> "UNHANDLED"]]

\* tarot_en = _astro_post("tarot_predictions", payload=nums): "ok", or
\* raise_for_status raises ("http"), or requests raises ("conn")
TarotFetch(o) ==
    /\ treq.pc = "fetch"
    /\ o \in (IF env.astro THEN {"ok", "http", "conn"} ELSE {"http", "conn"})
    /\ IF o = "ok"
       THEN /\ treq' = [treq EXCEPT !.pc = "translate",
                                     !.steps = Append(@, "fact_ok")]
            /\ tresp' = tresp
       ELSE /\ treq' = [treq EXCEPT !.pc = "done",
                                     !.steps = @ \o <<"fact_failed", "resp">>]
            /\ tresp' = TarotUnhandled
    /\ UNCHANGED <<today, env, nreq, hpriv, xvars, files, draws, firstNums>>

\* tarot_es = _translate_tarot_to_es(tarot_en): the reply parses as JSON
\* ("es"), or holds no JSON object and the English text is kept ("en"), or the
\* call or the parsing of the isolated object raises ("raise")
TarotTranslate(o) ==
    /\ treq.pc = "translate"
    /\ o \in (IF env.openai THEN {"es", "en", "raise"} ELSE {"raise"})
    /\ IF o = "raise"
       THEN /\ treq' = [treq EXCEPT !.pc = "done",
                                     !.steps = @ \o <<"rew_failed", "resp">>]
            /\ tresp' = TarotUnhandled
       ELSE /\ treq' = [treq EXCEPT !.pc = "write", !.text = o,
                                     !.steps = Append(@, "rew_ok")]
            /\ tresp' = tresp
    /\ UNCHANGED <<today, env, nreq, hpriv, xvars, files, draws, firstNums>>

\* lines 216-229: the result is built (its date read from the clock),
\* _write_cache stores it unless the write fails, and it is the answer
TarotWrite(stored) ==
    LET result == [date |-> today, text |-> treq.text,
                   device_id_used |-> treq.device_id,
                   numbers_used |-> treq.nums, live |-> treq.live] IN
    /\ treq.pc = "write"
    /\ files' = IF stored THEN [files EXCEPT ![treq.cache_file] = result]
                ELSE files
    /\ tresp' = [status |-> 200, body |-> result]
    /\ firstNums' = NoteAnswer(treq.day, treq.device_id, treq.live, treq.nums)
    /\ treq' = [treq EXCEPT !.pc = "done", !.steps = @ \o <<"write", "resp">>]
    /\ UNCHANGED <<today, env, nreq, hpriv, xvars, draws>>

\* the response is sent and the locals of the handler are gone
TarotExit ==
    /\ treq.pc = "done"
    /\ treq' = IdleTarot
    /\ tresp' = NoResp
    /\ UNCHANGED <<today, env, nreq, hpriv, xvars, files, draws, firstNums>>

(***************************************************************************)
(* articuloastro.py: /daily-astrology-article, served by the threads of    *)
(* the server, with one cache file per date.                               *)
(***************************************************************************)
\* the threads that serve requests at the same time
Handlers == {1, 2}

\* content of a cache file: none, an incomplete JSON text (also the empty
\* text open(..., "w") leaves), or the document a request has written
Documents == [date : Days, gen : 1 .. MaxReqs]

\* a file that holds an incomplete JSON text
PartialFile == [partial |-> TRUE]

NoBody == [none |-> TRUE]

IdleArticle == [pc |-> "idle", day |-> 1, gen |-> 0, cached |-> FALSE,
                status |-> 0, error |-> "", body |-> NoBody, steps |-> <<>>]

ArticleInit ==
    /\ afiles = [d \in Days |-> NoFile]
    /\ areq = [h \in Handlers |-> IdleArticle]

\* the answer of a handler and its end, after the steps it ends with
Answer(h, last, status, error, body) ==
    [areq EXCEPT ![h].pc = "done", ![h].status = status, ![h].error = error,
                 ![h].body = body, ![h].steps = @ \o last \o <<"resp">>]

\* an except clause of the handler returns the error response
except_passes(o) == FALSE

except_returns(o) == o # "ok"

ArticleTick ==
    /\ today < MaxDay
    /\ today' = today + 1
    /\ UNCHANGED <<env, nreq, hpriv, tvars, keyed, pvars, rvars, avars>>

\* lines 237-240: now = datetime.now(tz); cache_file = cache_path_for_date(...)
ArticleArrive(h) ==
    /\ areq[h].pc = "idle"
    /\ nreq < MaxReqs
    /\ nreq' = nreq + 1
    /\ areq' = [areq EXCEPT ![h] = [IdleArticle EXCEPT !.pc = "exists",
                                                        !.day = today,
                                                        !.gen = nreq + 1]]
    /\ UNCHANGED <<today, env, hpriv, tvars, keyed, pvars, rvars, afiles>>

\* line 243: if os.path.exists(cache_file)
ArticleExists(h) ==
    /\ areq[h].pc = "exists"
    /\ areq' = IF afiles[areq[h].day] # NoFile
               THEN [areq EXCEPT ![h].pc = "read", ![h].cached = TRUE,
                                 ![h].steps = Append(@, "read")]
               ELSE [areq EXCEPT ![h].pc = "validate",
                                 ![h].steps = Append(@, "read")]
    /\ UNCHANGED <<today, env, nreq, hpriv, tvars, keyed, pvars, rvars, afiles>>

\* lines 244-245: return jsonify(json.load(f)); the exception json.load
\* raises on an incomplete text leaves the handler
json_load(content) ==
    IF content = PartialFile
    THEN [status |-> 500, error |-> "UNHANDLED", body |-> NoBody]
    ELSE [status |-> 200, error |-> "", body |-> content]

ArticleRead(h) ==
    /\ areq[h].pc = "read"
    /\ LET r == json_load(afiles[areq[h].day]) IN
       areq' = Answer(h, <<>>, r.status, r.error, r.body)
    /\ UNCHANGED <<today, env, nreq, hpriv, tvars, keyed, pvars, rvars, afiles>>

\* lines 248-251: the credentials are tested before any call
ArticleValidate(h) ==
    /\ areq[h].pc = "validate"
    /\ areq' = IF ~env.openai \/ ~env.astro
               THEN Answer(h, <<>>, 500, "CONFIG", NoBody)
               ELSE [areq EXCEPT ![h].pc = "facts"]
    /\ UNCHANGED <<today, env, nreq, hpriv, tvars, keyed, pvars, rvars, afiles>>

\* lines 254-261: facts = get_daily_facts(...), and its except clauses
ArticleFacts(h, o) ==
    /\ areq[h].pc = "facts"
    /\ LET step == IF o = "ok" THEN "fact_ok" ELSE "fact_failed" IN
       areq' = IF ~except_returns(o)
               THEN [areq EXCEPT ![h].pc = "rewrite",
                                 ![h].steps = Append(@, step)]
               ELSE CASE o = "http" -> Answer(h, <<step>>, 502, "ASTRO_HTTP", NoBody)
                      [] o = "conn" -> Answer(h, <<step>>, 503, "ASTRO_CONN", NoBody)
                      [] OTHER -> Answer(h, <<step>>, 500, "ASTRO_OTHER", NoBody)
    /\ UNCHANGED <<today, env, nreq, hpriv, tvars, keyed, pvars, rvars, afiles>>

\* lines 264-283: client.chat.completions.create(...), and its except clauses
ArticleRewrite(h, o) ==
    /\ areq[h].pc = "rewrite"
    /\ LET step == IF o = "ok" THEN "rew_ok" ELSE "rew_failed" IN
       areq' = IF ~except_returns(o)
               THEN [areq EXCEPT ![h].pc = "open",
                                 ![h].steps = Append(@, step)]
               ELSE CASE o = "auth" -> Answer(h, <<step>>, 500, "OPENAI_AUTH", NoBody)
                      [] o = "conn" -> Answer(h, <<step>>, 503, "OPENAI_CONN", NoBody)
                      [] OTHER -> Answer(h, <<step>>, 500, "OPENAI_OTHER", NoBody)
    /\ UNCHANGED <<today, env, nreq, hpriv, tvars, keyed, pvars, rvars, afiles>>

\* data = {"date": today_iso, "facts": facts, "article": article_text}
ArticleData(h) == [date |-> areq[h].day, gen |-> areq[h].gen]

\* line 293: open(cache_file, "w") empties the file; an exception is passed
ArticleOpen(h, opened) ==
    /\ areq[h].pc = "open"
    /\ IF opened
       THEN /\ afiles' = [afiles EXCEPT ![areq[h].day] = PartialFile]
            /\ areq' = [areq EXCEPT ![h].pc = "dump",
                                    ![h].steps = Append(@, "write")]
       ELSE /\ afiles' = afiles
            /\ areq' = Answer(h, <<"write">>, 200, "", ArticleData(h))
    /\ UNCHANGED <<today, env, nreq, hpriv, tvars, keyed, pvars, rvars>>

\* lines 294-298: json.dump(data, f) and the end of the with block; a write
\* that fails leaves what was written; return jsonify(data).  The text of a
\* handler is written from the start of the file whatever another handler
\* has written since this one emptied it: the end of a longer text of the
\* other stays behind it.
ArticleDump(h, written, same_length) ==
    /\ areq[h].pc = "dump"
    /\ afiles' = [afiles EXCEPT ![areq[h].day] =
                    IF ~written THEN @
                    ELSE IF @ # PartialFile /\ ~same_length THEN PartialFile
                    ELSE ArticleData(h)]
    /\ areq' = Answer(h, <<>>, 200, "", ArticleData(h))
    /\ UNCHANGED <<today, env, nreq, hpriv, tvars, keyed, pvars, rvars>>

\* the response is sent
ArticleExit(h) ==
    /\ areq[h].pc = "done"
    /\ areq' = [areq EXCEPT ![h] = IdleArticle]
    /\ UNCHANGED <<today, env, nreq, hpriv, tvars, keyed, pvars, rvars, afiles>>

ArticleNext ==
    \/ ArticleTick
    \/ \E h \in Handlers :
          \/ ArticleArrive(h)
          \/ ArticleExists(h)
          \/ ArticleRead(h)
          \/ ArticleValidate(h)
          \/ \E o \in {"ok", "http", "conn", "other"} : ArticleFacts(h, o)
          \/ \E o \in {"ok", "auth", "conn", "other"} : ArticleRewrite(h, o)
          \/ \E opened \in BOOLEAN : ArticleOpen(h, opened)
          \/ \E written, same_length \in BOOLEAN : ArticleDump(h, written, same_length)
          \/ ArticleExit(h)

(***************************************************************************)
(* Horoscope requests served at the same time by the threads of the        *)
(* server.  Each request has its own executor and its own signs_out; the   *)
(* pool of one request is followed in Spec, here a request collects the    *)
(* results of its signs one by one, in any order.                          *)
(***************************************************************************)
rpriv == <<req, task, runs, signs_out, failure, factCalls, rewCalls, resp>>

\* one endpoint of each service: api_today and api_advice_truth are written
\* as api_daily_horoscope is
RaceEndpoints == {"daily", "detailed"}

IdleRace == [pc |-> "idle", ep |-> "today", date_key |-> 1, gen |-> 0,
             left |-> {}, out |-> {}, status |-> 0, cached |-> FALSE]

NoStore == [none |-> TRUE]

RaceInit ==
    /\ race = [h \in Handlers |-> IdleRace]
    /\ rlast = NoStore

\* the mapping the tasks of a request fill: signs_out = {} is a local of the
\* builder, one per request
shared_mapping(h) == 1

own_mapping(h) == h

\* the payloads request gen computes, by sign
FullResult(gen) == {<<s, gen>> : s \in SIGNS_ES}

\* the clock passes midnight; a request reads it once, on arrival
RaceTick ==
    /\ today < MaxDay
    /\ \A h \in Handlers : race[h].pc # "done"
    /\ today' = today + 1
    /\ UNCHANGED <<env, nreq, hpriv, tvars, xvars>>

\* a request arrives: the cache test, then the hit branch or the builder
RaceArrive(h, ep, force) ==
    LET date_key == today_key_and_label IN
    /\ race[h].pc = "idle"
    /\ nreq < MaxReqs
    /\ nreq' = nreq + 1
    /\ race' = [race EXCEPT ![h] =
                  IF CacheHit(ep, force, date_key)
                  THEN [IdleRace EXCEPT !.pc = "done", !.ep = ep,
                                        !.date_key = date_key, !.gen = nreq + 1,
                                        !.status = 200, !.cached = TRUE]
                  ELSE [IdleRace EXCEPT !.pc = "build", !.ep = ep,
                                        !.date_key = date_key, !.gen = nreq + 1,
                                        !.left = SIGNS_ES]]
    /\ UNCHANGED <<today, env, CACHE, CACHE_DETAILED, rpriv, tvars, keyed, pvars, avars,
                   rlast>>

\* for f in as_completed(futures): sign_es, data = f.result();
\* signs_out[sign_es] = data, or the exception of the task leaves the builder
RaceCollect(h, s, o) ==
    /\ race[h].pc = "build"
    /\ s \in race[h].left
    /\ o \in TaskOutcomes(env)
    /\ race' = IF o = "ok"
               THEN [race EXCEPT ![h].left = @ \ {s},
                                 ![own_mapping(h)].out =
                                     @ \cup {<<TaskResultKey(s), race[h].gen>>}]
               ELSE [race EXCEPT ![h].pc = "done", ![h].status = 500,
                                 ![h].left = {}, ![own_mapping(h)].out = {}]
    /\ UNCHANGED <<today, env, nreq, CACHE, CACHE_DETAILED, rpriv, tvars, keyed, pvars,
                   avars, rlast>>

\* result = build_...(date_key, date_label); CACHE[key] = result;
\* return jsonify(result)
RaceStore(h) ==
    LET r == race[h]
        result == Entry(r.date_key, race[own_mapping(h)].out, r.gen) IN
    /\ r.pc = "build"
    /\ r.left = {}
    /\ IF r.ep = "detailed"
       THEN /\ CACHE_DETAILED' = [CACHE_DETAILED EXCEPT ![r.date_key] = result]
            /\ CACHE' = CACHE
       ELSE /\ CACHE' = [CACHE EXCEPT ![CacheKey(r.ep, r.date_key)] = result]
            /\ CACHE_DETAILED' = CACHE_DETAILED
    /\ rlast' = [ep |-> r.ep, date_key |-> r.date_key, gen |-> r.gen]
    /\ race' = [race EXCEPT ![h].pc = "done", ![h].status = 200,
                            ![own_mapping(h)].out = {}]
    /\ UNCHANGED <<today, env, nreq, rpriv, tvars, keyed, pvars, avars>>

\* the response is sent
RaceExit(h) ==
    /\ race[h].pc = "done"
    /\ race' = [race EXCEPT ![h] = IdleRace]
    /\ UNCHANGED <<today, env, nreq, CACHE, CACHE_DETAILED, rpriv, tvars, keyed, pvars,
                   avars, rlast>>

RaceNext ==
    \/ RaceTick
    \/ \E h \in Handlers :
          \/ \E ep \in RaceEndpoints, force \in BOOLEAN : RaceArrive(h, ep, force)
          \/ \E s \in SIGNS_ES, o \in Outcomes : RaceCollect(h, s, o)
          \/ RaceStore(h)
          \/ RaceExit(h)

(***************************************************************************)
(* The translate functions called on their own:                            *)
(* horoscopoDetallado.translate_sections_to_es and                         *)
(* tarotdiario._translate_tarot_to_es.  A dict is a function from its      *)
(* keys; the reply of the Rewriter is                                      *)
(*   "exception"  client.chat.completions.create raised                    *)
(*   "object"     the content is a JSON object                             *)
(*   "list"       the content is JSON, and no object                       *)
(*   "wrapped"    the content is a JSON object with text around it         *)
(*   "braces"     the content holds braces and no JSON between them        *)
(*   "text"       the content holds no brace and is no JSON                *)
(***************************************************************************)
EmptyDict == [k \in {} |-> ""]

\* d.get(k, default)
Get(d, k, default) == IF k \in DOMAIN d THEN d[k] ELSE default

\* the JSON value null, None in Python
JsonNull == "<null>"

NoCall == [none |-> TRUE]

NoReply == [kind |-> "none"]

\* a call that raised, and one that returned v
Raised == [raised |-> TRUE]

Returned(v) == [raised |-> FALSE, value |-> v]

\* str(v).strip() and v.strip() of the values the replies carry
strip(v) == IF v = " es " THEN "es" ELSE v

str(v) == IF v = JsonNull THEN "None" ELSE v

SectionNames == {"general", "love"}

\* sections_en as extract_sections_en returns it: the sections found, or the
\* whole text under "raw", or nothing
SectionInputs ==
    UNION {[K -> {"en"}] : K \in SUBSET (SectionNames \cup {"raw"})}

SectionReplies ==
    {[kind |-> k, value |-> EmptyDict] :
        k \in {"exception", "list", "wrapped", "braces", "text"}}
    \cup {[kind |-> "object", value |-> v] :
            v \in UNION {[K -> {" es ", JsonNull}] :
                            K \in SUBSET (SectionNames \cup {"extra"})}}

\* the Rewriter is called: sections_en is not empty, holds no "raw", and
\* OPENAI_API_KEY is set
sections_call_made(sections_en, api_key) ==
    /\ DOMAIN sections_en # {}
    /\ "raw" \notin DOMAIN sections_en
    /\ api_key

translate_sections_reply_keys(sections_en, api_key, reply) ==
    IF sections_call_made(sections_en, api_key) /\ reply.kind = "object"
    THEN Returned([k \in DOMAIN reply.value |-> strip(str(reply.value[k]))])
    ELSE Returned(sections_en)

translate_sections_to_es(sections_en, api_key, reply) ==
    IF DOMAIN sections_en = {} THEN Returned(EmptyDict)
    ELSE IF "raw" \in DOMAIN sections_en THEN Returned(sections_en)
    ELSE IF ~api_key THEN Returned(sections_en)
    ELSE IF reply.kind = "exception" THEN Raised
    ELSE IF reply.kind = "object"
    THEN Returned([k \in DOMAIN sections_en |->
                      strip(str(Get(reply.value, k, "")))])
    ELSE Returned(sections_en)

TarotFields == {"love", "career", "finance"}

TarotKeys == {"amor", "trabajo", "dinero_y_fortuna"}

\* tarot_en as the FactSource answers: the three readings, or fewer
TarotInputs == UNION {[K -> {"en"}] : K \in SUBSET TarotFields}

TarotReplies ==
    {[kind |-> k, value |-> EmptyDict] :
        k \in {"exception", "list", "braces", "text"}}
    \cup {[kind |-> k, value |-> v] :
            k \in {"object", "wrapped"},
            v \in UNION {[K -> {" es "}] : K \in SUBSET TarotKeys}
                    \cup {[f \in TarotKeys |-> JsonNull]}}

\* (d.get(k) or "").strip()
get_or_empty(d, k) ==
    LET v == Get(d, k, JsonNull) IN IF v = JsonNull THEN "" ELSE strip(v)

\* lines 182-186: the three expected fields of data
tarot_fields_of(data) == [k \in TarotKeys |-> get_or_empty(data, k)]

\* lines 125-127 and 175-179: the English readings under the Spanish keys
tarot_source(tarot_en) ==
    [k \in TarotKeys |->
        CASE k = "amor" -> get_or_empty(tarot_en, "love")
          [] k = "trabajo" -> get_or_empty(tarot_en, "career")
          [] OTHER -> get_or_empty(tarot_en, "finance")]

\* "list": data is no dict and data.get raises; "braces": json.loads of the
\* isolated text raises
translate_tarot_to_es(tarot_en, reply) ==
    CASE reply.kind = "exception" -> Raised
      [] reply.kind = "object" -> Returned(tarot_fields_of(reply.value))
      [] reply.kind = "list" -> Raised
      [] reply.kind = "wrapped" -> Returned(tarot_fields_of(reply.value))
      [] reply.kind = "braces" -> Raised
      [] OTHER -> Returned(tarot_fields_of(tarot_source(tarot_en)))

TranslateFunctions == {"translate_sections_to_es", "_translate_tarot_to_es"}

\* the kind of failure a reply of the Rewriter is: the call raised, or the
\* content is not the JSON object asked for
failure_of(reply) ==
    CASE reply.kind = "exception" -> "exception"
      [] reply.kind = "object" -> "none"
      [] OTHER -> "malformed"

\* what the function did with a failure: the exception left it, or it
\* returned the source text, or it recovered the translation
handling_of(result, source) ==
    IF result.raised THEN "propagate"
    ELSE IF result.value = source THEN "fallback"
    ELSE "recovered"

Noted(fn, reply, result, source) ==
    IF failure_of(reply) # "none"
       /\ handling_of(result, source) \in {"propagate", "fallback"}
    THEN [handled EXCEPT ![fn] = @ \cup {handling_of(result, source)}]
    ELSE handled

PureInit ==
    /\ pcall = NoCall
    /\ handled = [fn \in TranslateFunctions |-> {}]

\* sections_es = translate_sections_to_es(sections_en)
TranslateSectionsCall(sections_en, reply) ==
    LET result == translate_sections_to_es(sections_en, env.openai, reply)
        called == sections_call_made(sections_en, env.openai) IN
    /\ nreq < MaxReqs
    /\ nreq' = nreq + 1
    /\ pcall' = [fn |-> "translate_sections_to_es", input |-> sections_en,
                 reply |-> IF called THEN reply ELSE NoReply,
                 result |-> result]
    /\ handled' = IF called
                  THEN Noted("translate_sections_to_es", reply, result, sections_en)
                  ELSE handled
    /\ UNCHANGED <<today, env, hpriv, tvars, keyed, avars, rvars, mreq>>

\* tarot_es = _translate_tarot_to_es(tarot_en); without a key the call of
\* the module's client raises
TranslateTarotCall(tarot_en, reply) ==
    LET result == translate_tarot_to_es(tarot_en, reply) IN
    /\ nreq < MaxReqs
    /\ env.openai \/ reply.kind = "exception"
    /\ nreq' = nreq + 1
    /\ pcall' = [fn |-> "_translate_tarot_to_es", input |-> tarot_en,
                 reply |-> reply, result |-> result]
    /\ handled' = Noted("_translate_tarot_to_es", reply, result,
                        tarot_source(tarot_en))
    /\ UNCHANGED <<today, env, hpriv, tvars, keyed, avars, rvars, mreq>>

TranslateNext ==
    \/ \E sections_en \in SectionInputs, reply \in SectionReplies :
          TranslateSectionsCall(sections_en, reply)
    \/ \E tarot_en \in TarotInputs, reply \in TarotReplies :
          TranslateTarotCall(tarot_en, reply)

(***************************************************************************)
(* LaLunaDeHoy.py: /moon-today, which keeps no cache, and                  *)
(* normalize_lunar_metrics.  A JSON value is a record tagged with its      *)
(* type.                                                                   *)
(***************************************************************************)
None == [t |-> "none"]

Num(n) == [t |-> "num", n |-> n]

Str(x) == [t |-> "str", s |-> x]

Bool(b) == [t |-> "bool", b |-> b]

\* a key the dict does not hold
Absent == [t |-> "absent"]

\* an answer of lunar_metrics that is JSON and no object
NotADict == [list |-> TRUE]

MetricKeys == {"distance", "apogee_distance", "perigee_distance",
               "within_apogee_range", "within_perigee_range"}

\* the dict of the fields of r that are present
Present(r) == [k \in {q \in MetricKeys : r[q] # Absent} |-> r[k]]

\* answers of the lunar_metrics endpoint: each field absent or with one of a
\* few values, "--" being what the API sends for an unknown distance
MetricAnswers ==
    {Present(r) :
        r \in [distance : {Absent, Str("--"), Num(1)},
               apogee_distance : {Absent, Str("--"), Num(0), Str("2")},
               perigee_distance : {Absent, Num(3)},
               within_apogee_range : {Absent, Bool(TRUE), Bool(FALSE)},
               within_perigee_range : {Absent, Bool(TRUE), Bool(FALSE)}]}
    \cup {NotADict}

\* float(v) of a string: "2" is a number, "--" and other text raise
float_of_str(x) == IF x = "2" THEN Num(2) ELSE None

\* _to_num: None, "" and "--" give None, a number or a numeric text its
\* float, a bool 1.0 or 0.0, anything float() refuses None
to_num(v) ==
    CASE v = None -> None
      [] v.t = "str" -> IF v.s \in {"", "--"} THEN None ELSE float_of_str(v.s)
      [] v.t = "num" -> v
      [] v.t = "bool" -> IF v.b THEN Num(1) ELSE Num(0)
      [] OTHER -> None

\* the truth value Python gives a JSON value
truthy(v) ==
    CASE v = None -> FALSE
      [] v.t = "str" -> v.s # ""
      [] v.t = "num" -> v.n # 0
      [] v.t = "bool" -> v.b
      [] OTHER -> FALSE

\* a or b
py_or(a, b) == IF truthy(a) THEN a ELSE b

\* lines 114-129: the distance and the name of its source
distance_of(m) ==
    LET dist == to_num(Get(m, "distance", None))
        apogee == to_num(Get(m, "apogee_distance", None))
        perigee == to_num(Get(m, "perigee_distance", None)) IN
    IF dist # None THEN [dist |-> dist, dist_src |-> "distance"]
    ELSE IF truthy(Get(m, "within_apogee_range", None)) /\ apogee # None
    THEN [dist |-> apogee, dist_src |-> "apogee_distance"]
    ELSE IF truthy(Get(m, "within_perigee_range", None)) /\ perigee # None
    THEN [dist |-> perigee, dist_src |-> "perigee_distance"]
    ELSE [dist |-> py_or(apogee, perigee),
          dist_src |-> "apogee_distance/perigee_distance"]

normalize_lunar_metrics(metrics) ==
    IF metrics = NotADict THEN EmptyDict
    ELSE LET d == distance_of(metrics) IN
         IF d.dist # None
         THEN [k \in DOMAIN metrics \cup {"distance_km", "distance_source"} |->
                  CASE k = "distance_km" -> d.dist
                    [] k = "distance_source" -> Str(d.dist_src)
                    [] OTHER -> metrics[k]]
         ELSE metrics

IdleMoon == [pc |-> "idle", day |-> 1, step |-> "", outcome |-> "",
             status |-> 0, error |-> "", detail |-> "",
             lunar_metrics |-> NotADict, metrics |-> EmptyDict]

MoonInit == mreq = IdleMoon

\* lines 234-239, the except clauses around get_moon_today_facts:
\* raise_for_status raises HTTPError for a rejected credential ("auth", status
\* 401) as for any other status from 400 on ("http"), and str(e) quotes the
\* status; "conn" is a RequestException, "other" any other exception
facts_except(o) ==
    CASE o = "auth" -> [status |-> 502, error |-> "ASTRO_HTTP", detail |-> "401"]
      [] o = "http" -> [status |-> 502, error |-> "ASTRO_HTTP", detail |-> "500"]
      [] o = "conn" -> [status |-> 503, error |-> "ASTRO_CONN", detail |-> ""]
      [] OTHER -> [status |-> 500, error |-> "ASTRO_OTHER", detail |-> "type"]

\* lines 259-264, the except clauses around client.chat.completions.create
rewrite_except(o) ==
    CASE o = "auth" -> [status |-> 500, error |-> "OPENAI_AUTH", detail |-> ""]
      [] o = "conn" -> [status |-> 503, error |-> "OPENAI_CONN", detail |-> ""]
      [] OTHER -> [status |-> 500, error |-> "OPENAI_OTHER", detail |-> "type"]

\* the answer of the handler: its status and, of an error, the except clause
\* that wrote the text and what the text quotes of the exception
MoonAnswer(step, o, a) ==
    [mreq EXCEPT !.pc = "done", !.step = step, !.outcome = o,
                 !.status = a.status, !.error = a.error, !.detail = a.detail]

MoonTick ==
    /\ today < MaxDay
    /\ mreq.pc = "idle"
    /\ today' = today + 1
    /\ UNCHANGED <<env, nreq, hpriv, tvars, xvars>>

\* lines 221-223
MoonArrive ==
    /\ mreq.pc = "idle"
    /\ nreq < MaxReqs
    /\ nreq' = nreq + 1
    /\ mreq' = [IdleMoon EXCEPT !.pc = "validate", !.day = today]
    /\ UNCHANGED <<today, env, hpriv, tvars, keyed, avars, rvars, pcall, handled>>

\* lines 226-229: the credentials are tested before any call
MoonValidate ==
    /\ mreq.pc = "validate"
    /\ mreq' = IF ~env.openai \/ ~env.astro
               THEN MoonAnswer("validate", "missing",
                               [status |-> 500, error |-> "CONFIG", detail |-> ""])
               ELSE [mreq EXCEPT !.pc = "facts"]
    /\ UNCHANGED <<today, env, nreq, hpriv, tvars, keyed, avars, rvars, pcall,
                   handled>>

\* lines 232-239: facts = get_moon_today_facts(...), which normalises the
\* answer of lunar_metrics, or one of the except clauses
MoonFacts(o, lunar_metrics) ==
    /\ mreq.pc = "facts"
    /\ mreq' = IF o = "ok"
               THEN [mreq EXCEPT !.pc = "rewrite",
                                 !.lunar_metrics = lunar_metrics,
                                 !.metrics = normalize_lunar_metrics(lunar_metrics)]
               ELSE MoonAnswer("facts", o, facts_except(o))
    /\ UNCHANGED <<today, env, nreq, hpriv, tvars, keyed, avars, rvars, pcall,
                   handled>>

\* lines 244-270: client.chat.completions.create(..., timeout=45), its except
\* clauses, and the answer
MoonRewrite(o) ==
    /\ mreq.pc = "rewrite"
    /\ mreq' = IF o = "ok"
               THEN MoonAnswer("rewrite", o,
                               [status |-> 200, error |-> "", detail |-> ""])
               ELSE MoonAnswer("rewrite", o, rewrite_except(o))
    /\ UNCHANGED <<today, env, nreq, hpriv, tvars, keyed, avars, rvars, pcall,
                   handled>>

\* the response is sent
MoonExit ==
    /\ mreq.pc = "done"
    /\ mreq' = IdleMoon
    /\ UNCHANGED <<today, env, nreq, hpriv, tvars, keyed, avars, rvars, pcall,
                   handled>>

MoonNext ==
    \/ MoonTick
    \/ MoonArrive
    \/ MoonValidate
    \/ \E o \in {"ok", "auth", "http", "conn", "other"},
          lunar_metrics \in MetricAnswers : MoonFacts(o, lunar_metrics)
    \/ \E o \in {"ok", "auth", "conn", "other"} : MoonRewrite(o)
    \/ MoonExit

(***************************************************************************)
(* horoscopoDiario.py: extract_advice_and_truth, called on its own.  A     *)
(* text is a sequence of characters: a letter, the period and a blank.     *)
(***************************************************************************)
\* longest prediction text given to extract_advice_and_truth
MaxText == 7

TextChars == {"a", ".", " "}

\* the characters str.strip() removes and \s matches
Whitespace == {" "}

RECURSIVE lstrip(_)
lstrip(q) ==
    IF q # <<>> /\ Head(q) \in Whitespace THEN lstrip(Tail(q)) ELSE q

RECURSIVE rstrip(_)
rstrip(q) ==
    IF q # <<>> /\ q[Len(q)] \in Whitespace
    THEN rstrip(SubSeq(q, 1, Len(q) - 1))
    ELSE q

\* s.strip() of a text
str_strip(q) == rstrip(lstrip(q))

\* re.split(r"\.\s+", q), scanning from the left: cur is the piece read so
\* far; a period followed by whitespace ends it and is dropped together with
\* the whole run of whitespace
RECURSIVE re_split(_, _)
re_split(q, cur) ==
    IF q = <<>> THEN <<cur>>
    ELSE IF Head(q) = "." /\ Len(q) >= 2 /\ q[2] \in Whitespace
    THEN <<cur>> \o re_split(lstrip(Tail(q)), <<>>)
    ELSE re_split(Tail(q), Append(cur, Head(q)))

\* [s.strip() for s in sentences]
RECURSIVE strip_each(_)
strip_each(pieces) ==
    IF pieces = <<>> THEN <<>>
    ELSE <<str_strip(Head(pieces))>> \o strip_each(Tail(pieces))

\* extract_advice_and_truth without the "if s.strip()" of line 279
extract_advice_and_truth_unfiltered(prediction) ==
    LET sentences == strip_each(re_split(str_strip(prediction), <<>>)) IN
    IF sentences = <<>> THEN << <<>>, <<>> >>
    ELSE IF Len(sentences) = 1 THEN <<sentences[1], sentences[1]>>
    ELSE <<sentences[1], sentences[2]>>

\* extract_advice_and_truth(prediction), lines 278-284
extract_advice_and_truth(prediction) ==
    LET sentences ==
            SelectSeq(strip_each(re_split(str_strip(prediction), <<>>)),
                      LAMBDA s : s # <<>>) IN
    IF sentences = <<>> THEN << <<>>, <<>> >>
    ELSE IF Len(sentences) = 1 THEN <<sentences[1], sentences[1]>>
    ELSE <<sentences[1], sentences[2]>>

\* the text being given to extract_advice_and_truth, as far as it is written
text_en == IF pcall # NoCall /\ pcall.fn = "text_en" THEN pcall.input ELSE <<>>

\* text_en = join_sections(sections_en): the text of the FactSource's answer
\* gets one more character
PredictionText(c) ==
    /\ IF pcall = NoCall THEN TRUE ELSE pcall.fn = "text_en"
    /\ Len(text_en) < MaxText
    /\ pcall' = [fn |-> "text_en", input |-> Append(text_en, c)]
    /\ UNCHANGED <<today, env, nreq, hpriv, tvars, keyed, avars, rvars,
                   handled, mreq>>

\* advice_en, truth_en = extract_advice_and_truth(text_en)
ExtractCall ==
    /\ IF pcall = NoCall THEN TRUE ELSE pcall.fn = "text_en"
    /\ pcall' = [fn |-> "extract_advice_and_truth", input |-> text_en,
                 result |-> extract_advice_and_truth(text_en)]
    /\ UNCHANGED <<today, env, nreq, hpriv, tvars, keyed, avars, rvars,
                   handled, mreq>>

\* the caller has taken the two texts
ExtractReturn ==
    /\ pcall # NoCall
    /\ pcall.fn = "extract_advice_and_truth"
    /\ pcall' = NoCall
    /\ UNCHANGED <<today, env, nreq, hpriv, tvars, keyed, avars, rvars,
                   handled, mreq>>

ExtractNext ==
    \/ \E c \in TextChars : PredictionText(c)
    \/ ExtractCall
    \/ ExtractReturn

Init ==
    /\ today = 1
    /\ env \in Envs
    /\ nreq = 0
    /\ HoroInit
    /\ TarotInit
    /\ keyed = {}
    /\ ArticleInit
    /\ RaceInit
    /\ PureInit
    /\ MoonInit

SpecExtract == Init /\ [][ExtractNext]_vars

SpecMoon == Init /\ [][MoonNext]_vars

SpecTranslate == Init /\ [][TranslateNext]_vars

SpecArticle == Init /\ [][ArticleNext]_vars

SpecRace == Init /\ [][RaceNext]_vars

Next ==
    \/ Tick
    \/ HandlerExit
    \/ \E ep \in Endpoints, force \in BOOLEAN : ApiCacheHit(ep, force)
    \/ \E ep \in Endpoints, force \in BOOLEAN : ApiCacheMiss(ep, force)
    \/ \E s \in SIGNS_ES, o \in Outcomes : FinishTask(s, o)
    \/ \E s \in SIGNS_ES, o \in Outcomes : Collect(s, o)
    \/ ReturnResult
    \/ \E exc \in Failures : ReturnError(exc)

Spec == Init /\ [][Next]_vars

(***************************************************************************)
(* The endpoints api_daily_horoscope, api_advice_truth and                 *)
(* api_detailed_today serving requests one after the other.                *)
(***************************************************************************)
CacheEndpoints == {"daily", "advice", "detailed"}

CacheNext ==
    \/ Tick
    \/ HandlerExit
    \/ \E ep \in CacheEndpoints, force \in BOOLEAN : ApiCacheHit(ep, force)
    \/ \E ep \in CacheEndpoints, force \in BOOLEAN : ApiCacheMiss(ep, force)
    \/ \E s \in SIGNS_ES, o \in Outcomes : FinishTask(s, o)
    \/ \E s \in SIGNS_ES, o \in Outcomes : Collect(s, o)
    \/ ReturnResult
    \/ \E exc \in Failures : ReturnError(exc)

SpecCache == Init /\ [][CacheNext]_vars

TarotNext ==
    \/ TarotTick
    \/ \E did \in DeviceParams : TarotCacheHit(did)
    \/ \E did \in DeviceParams, live \in BOOLEAN : TarotCacheMiss(did, live)
    \/ TarotDraw
    \/ \E o \in {"ok", "http", "conn"} : TarotFetch(o)
    \/ \E o \in {"es", "en", "raise"} : TarotTranslate(o)
    \/ \E stored \in BOOLEAN : TarotWrite(stored)
    \/ TarotExit

SpecTarot == Init /\ [][TarotNext]_vars

(***************************************************************************)
(* The two endpoints with a file cache, /daily-astrology-article and       *)
(* /api/tarot, each serving its requests; the tarot requests come from one *)
(* device, with and without live=1, and all requests fall on one day.  The *)
(* two services share nothing: one takes a step while no request of the    *)
(* other is being handled.                                                 *)
(***************************************************************************)
StepsDevice == <<"a">>

StepsTarotNext ==
    \/ TarotCacheHit(StepsDevice)
    \/ \E live \in BOOLEAN : TarotCacheMiss(StepsDevice, live)
    \/ TarotDraw
    \/ \E o \in {"ok", "http", "conn"} : TarotFetch(o)
    \/ \E o \in {"es", "en", "raise"} : TarotTranslate(o)
    \/ \E stored \in BOOLEAN : TarotWrite(stored)
    \/ TarotExit

StepsArticleNext ==
    \E h \in Handlers :
        \/ ArticleArrive(h)
        \/ ArticleExists(h)
        \/ ArticleRead(h)
        \/ ArticleValidate(h)
        \/ \E o \in {"ok", "http", "conn", "other"} : ArticleFacts(h, o)
        \/ \E o \in {"ok", "auth", "conn", "other"} : ArticleRewrite(h, o)
        \/ \E opened \in BOOLEAN : ArticleOpen(h, opened)
        \/ \E written, same_length \in BOOLEAN : ArticleDump(h, written, same_length)
        \/ ArticleExit(h)

StepsNext ==
    \/ treq.pc = "idle" /\ StepsArticleNext
    \/ (\A h \in Handlers : areq[h].pc = "idle") /\ StepsTarotNext

SpecSteps == Init /\ [][StepsNext]_vars

\* _draw_tarot_numbers called on its own, for any device and mode, on any day
DrawCall(did, live) ==
    LET device_id == safe_device_id(did) IN
    /\ nreq < MaxReqs
    /\ nreq' = nreq + 1
    /\ \E nums \in draw_tarot_numbers(device_id, live) :
       /\ treq' = [IdleTarot EXCEPT !.live = live, !.device_id = device_id,
                                    !.day = today, !.nums = nums]
       /\ draws' = IF live THEN draws
                   ELSE [draws EXCEPT ![<<today, device_id>>] =
                           [calls |-> @.calls + 1,
                            results |-> @.results \cup {nums}]]
    /\ UNCHANGED <<today, env, hpriv, xvars, files, tresp, firstNums>>

DrawNext ==
    \/ TarotTick
    \/ \E did \in DeviceParams, live \in BOOLEAN : DrawCall(did, live)

SpecDraw == Init /\ [][DrawNext]_vars

(***************************************************************************)
(* _safe_device_id and _cache_path called on their own.                    *)
(***************************************************************************)
\* a device_id of n characters
LongId(n) == [i \in 1 .. n |-> "a"]

\* device_id parameters: those of the requests, one with an underscore, one
\* with no character that is kept, and ones beyond the two length limits
KeyParams ==
    DeviceParams \cup {<<"/">>, <<"a", "_">>, <<"a", "-">>,
                       LongId(SafeIdLimit + 1), LongId(DeviceIdLimit + 2)}

\* device_id = _safe_device_id(); cache_file = _cache_path("tarot_daily", device_id)
KeyCall(did) ==
    LET device_id == safe_device_id(did) IN
    /\ nreq < MaxReqs
    /\ nreq' = nreq + 1
    /\ keyed' = keyed \cup {[day |-> today, device_id |-> device_id,
                             path |-> cache_path(device_id)]}
    /\ UNCHANGED <<today, env, hpriv, tvars, avars, rvars, pvars>>

KeyTick ==
    /\ today < MaxDay
    /\ today' = today + 1
    /\ UNCHANGED <<env, nreq, hpriv, tvars, xvars>>

KeyNext ==
    \/ KeyTick
    \/ \E did \in KeyParams : KeyCall(did)

SpecKey == Init /\ [][KeyNext]_vars

TypeOK ==
    /\ today \in Days
    /\ env \in Envs
    /\ req.phase \in {"idle", "collect", "shutdown", "done"}
    /\ \A s \in SIGNS_ES : task[s] \in {"idle", "queued", "running", "taken"} \cup Outcomes
    /\ nreq \in 0 .. MaxReqs
    /\ treq.pc \in {"idle", "draw", "fetch", "translate", "write", "done"}
    /\ treq.nums \in Seq(1 .. DeckSize)
    /\ \A f \in Paths : files[f] = NoFile \/ files[f].date \in Days

(***************************************************************************)
(* Properties of the horoscope endpoints (specification Spec).             *)
(***************************************************************************)
Finished == {"taken", "ok", "fetch_failed", "rewrite_failed"}

\* signs whose task raised
FailedTasks == {s \in SIGNS_ES : task[s] \in {"fetch_failed", "rewrite_failed"}}

\* signs for which the FactSource function astrology_*_daily was entered: it
\* is the first call of every build_one_sign_* task
FactInvoked == {s \in SIGNS_ES : runs[s] > 0}

\* the request being answered found an entry under today's key
HadEntry == req.phase # "idle" /\ req.pre # NoEntry

\* C1: a request without force that finds an entry under today's key of its
\* endpoint is answered at once with the payload of that entry (date_key,
\* signs and their content), no task is submitted and neither FactSource nor
\* the Rewriter is called.
CacheHitShortCircuit ==
    (HadEntry /\ ~req.force) =>
        /\ req.phase = "done"
        /\ factCalls = {} /\ rewCalls = {} /\ FactInvoked = {}
        /\ \A s \in SIGNS_ES : task[s] = "idle"
        /\ resp = OkResponse(req.pre, TRUE)

CacheHitServed ==
    /\ HadEntry /\ ~req.force /\ req.phase = "done"
    /\ resp.status = 200 /\ resp.signs = SIGNS_ES

\* C2 as stated: a forced request that finds an entry under today's key
\* invokes FactSource for every sign and ends with the entry overwritten by
\* its newly computed result.
ForceRefreshAlwaysOverwrites ==
    (HadEntry /\ req.force /\ req.phase = "done") =>
        /\ FactInvoked = SIGNS_ES
        /\ CacheGet(req.ep, req.date_key) = Entry(req.date_key, SIGNS_ES, nreq)

\* C2 amended: a forced request that finds an entry under today's key runs the
\* task of every sign, each entering the FactSource function (and reaching the
\* upstream whenever the credentials are set); when all tasks succeed the
\* entry is overwritten by the newly computed result, which is the answer;
\* when a task fails the entry is left as it was.
ForceRefreshBypass ==
    (HadEntry /\ req.force /\ req.phase = "done") =>
        /\ FactInvoked = SIGNS_ES
        /\ env.astro => factCalls = SIGNS_ES
        /\ failure = "none" =>
              /\ CacheGet(req.ep, req.date_key) = Entry(req.date_key, SIGNS_ES, nreq)
              /\ CacheGet(req.ep, req.date_key) # req.pre
              /\ resp = OkResponse(CacheGet(req.ep, req.date_key), FALSE)
        /\ failure # "none" => CacheGet(req.ep, req.date_key) = req.pre

ForceRefreshOverwrote ==
    /\ HadEntry /\ req.force /\ req.phase = "done"
    /\ failure = "none"
    /\ CacheGet(req.ep, req.date_key).gen = nreq
    /\ req.pre.gen < nreq

\* C3: when every per-sign task of a fan-out has succeeded, the keys of the
\* mapping the builder returns, and of the answer, are exactly SIGNS_ES.
FanoutComplete ==
    (req.phase \in {"shutdown", "done"} /\ \A s \in SIGNS_ES : task[s] = "taken") =>
        /\ signs_out = SIGNS_ES
        /\ req.phase = "done" => resp.status = 200 /\ resp.signs = SIGNS_ES

FanoutAllSucceeded ==
    /\ req.phase = "done"
    /\ \A s \in SIGNS_ES : task[s] = "taken"
    /\ resp.signs = SIGNS_ES

\* C4: when exactly one sign's task fails and all others succeed, the request
\* ends with one failure, the answer is no success and carries no signs, the
\* cache entry of the key is what it was before the request, and no cache
\* entry ever holds a partial mapping.
PartialFailureContained ==
    /\ (req.phase = "done" /\ Cardinality(FailedTasks) = 1) =>
          /\ failure \in Failures
          /\ resp.status # 200 /\ resp.signs = {}
          /\ CacheGet(req.ep, req.date_key) = req.pre
    /\ \A k \in CacheKeys : CACHE[k] # NoEntry => CACHE[k].signs = SIGNS_ES
    /\ \A d \in Days : CACHE_DETAILED[d] # NoEntry => CACHE_DETAILED[d].signs = SIGNS_ES

OneSignFailed ==
    /\ req.phase = "done"
    /\ Cardinality(FailedTasks) = 1
    /\ \A s \in SIGNS_ES \ FailedTasks : task[s] \in {"taken", "ok"}
    /\ \E s \in SIGNS_ES : task[s] = "taken"

\* C5: no sign's task is started twice, and a request that ran the fan-out is
\* answered only when the task of every sign has been started once and has
\* run to its end, also when a task has failed before.
AllSignsRunOnce ==
    /\ \A s \in SIGNS_ES : runs[s] <= 1
    /\ (req.phase = "done" /\ ~resp._cached) =>
          \A s \in SIGNS_ES : runs[s] = 1 /\ task[s] \in Finished

SiblingsRanAfterFailure ==
    /\ req.phase = "done"
    /\ failure # "none"
    /\ \A s \in SIGNS_ES : runs[s] = 1
    /\ task[1] \in {"fetch_failed", "rewrite_failed"}
    /\ task[NumSigns] = "ok"

\* C6 as stated: every failure of FactSource or of the Rewriter is answered
\* with a structured error payload carrying an error code, never with an
\* unhandled error and never with status 200.
FailuresAnsweredStructured ==
    (req.phase = "done" /\ failure # "none") =>
        /\ resp.structured
        /\ resp.status # 200
        /\ resp.error \in {"ASTRO_TRIAL_LIMIT", "SERVER_ERROR", "API_ERROR"}

\* C7 as stated: on every endpoint a quota answer of the upstream gives error
\* code ASTRO_TRIAL_LIMIT with status 429, and no other failure gives it.
QuotaDistinguished ==
    /\ (req.phase = "done" /\ failure = "quota") =>
          resp.error = "ASTRO_TRIAL_LIMIT" /\ resp.status = 429
    /\ (req.phase = "done" /\ failure \in {"http", "conn"}) =>
          resp.error # "ASTRO_TRIAL_LIMIT" /\ resp.status # 429

(***************************************************************************)
(* Properties of the tarot endpoint (specification SpecTarot) and of the   *)
(* draw (specification SpecDraw).                                          *)
(***************************************************************************)
\* a request without live=1 has been answered with a reading
NonLiveAnswered ==
    treq.pc = "done" /\ ~treq.live /\ tresp # NoResp /\ tresp.status = 200

\* C8: for a fixed day and device, every answer to a /api/tarot request
\* without live=1 carries the numbers_used of the first such answer, whatever
\* requests came in between, and never a reading that was drawn live.
TarotReproducible ==
    NonLiveAnswered =>
        /\ tresp.body.live = FALSE
        /\ tresp.body.numbers_used = firstNums[<<treq.day, treq.device_id>>]

IsDraw(nums) ==
    /\ Len(nums) = DrawCount
    /\ \A i \in 1 .. DrawCount : nums[i] \in 1 .. DeckSize
    /\ \A i, j \in 1 .. DrawCount : i # j => nums[i] # nums[j]

\* C9: every call of _draw_tarot_numbers, live or not, for every device and
\* day, returns three pairwise distinct values, each a card number of the deck
\* (1 .. DeckSize, which stands for 1 .. 78).
NoDuplicateDraw ==
    treq.nums # <<>> => IsDraw(treq.nums)

\* the generator repeats a value before three distinct ones are found
StreamRepeats(stream) ==
    \E i, j \in 1 .. Len(stream) :
        /\ i < j
        /\ stream[i] = stream[j]
        /\ Cardinality({stream[k] : k \in 1 .. j}) < DrawCount

\* a non-live draw whose generator repeated a value on the way
DrewAfterRepeat ==
    /\ treq.nums # <<>>
    /\ ~treq.live
    /\ StreamRepeats(randbelow_stream(seed_int(treq.day, treq.device_id)))

CacheKeyIsolation ==
    \A k1, k2 \in keyed :
        /\ (k1.device_id = k2.device_id /\ k1.day # k2.day) => k1.path # k2.path
        /\ (k1.device_id # k2.device_id /\ k1.day = k2.day) => k1.path # k2.path

\* the characters of the device part of a path
PathChars(k) == {k.path[2][i] : i \in 1 .. Len(k.path[2])}

\* no character of the device_id is kept by _cache_path
NothingKept(k) == \A i \in 1 .. Len(k.device_id) : ~IsKept(k.device_id[i])

\* C13 as stated: the device part of every cache path holds only alphanumeric
\* characters and hyphens, is at most 64 characters long, and is "anon" when
\* nothing of the identifier is kept.
KeyAlnumHyphenOnly ==
    \A k \in keyed :
        /\ PathChars(k) \subseteq AlnumChars \cup {"-"}
        /\ Len(k.path[2]) <= SafeIdLimit
        /\ NothingKept(k) => k.path[2] = <<"a", "n", "o", "n">>

\* C13 amended: the device part of every cache path holds only alphanumeric
\* characters, hyphens and underscores, is not empty and at most 64
\* characters long, and is "anon" when nothing of the identifier is kept.
KeySanitized ==
    \A k \in keyed :
        /\ PathChars(k) \subseteq AlnumChars \cup {"-", "_"}
        /\ Len(k.path[2]) \in 1 .. SafeIdLimit
        /\ NothingKept(k) => k.path[2] = <<"a", "n", "o", "n">>

\* one identifier was cut at the limit and one was replaced by "anon"
KeyCutAndAnon ==
    /\ \E k \in keyed : Len(k.device_id) > SafeIdLimit /\ Len(k.path[2]) = SafeIdLimit
    /\ \E k \in keyed : NothingKept(k) /\ k.path[2] = <<"a", "n", "o", "n">>

(***************************************************************************)
(* Further properties of the tarot endpoint (specification SpecTarot).     *)
(***************************************************************************)
\* the request was answered with the content of its cache file
ServedFromFile ==
    treq.pc = "done" /\ tresp # NoResp /\ tresp.status = 200 /\ treq.nums = <<>>

\* C12: every /api/tarot response served from the cache was computed for the
\* identifier of the request it answers: its device_id_used is that
\* identifier, and its numbers_used, unless drawn live, are the draw seeded
\* with that identifier on some day.
ClientIsolation ==
    ServedFromFile =>
        /\ tresp.body.device_id_used = treq.device_id
        /\ ~tresp.body.live =>
              \E d \in Days :
                  tresp.body.numbers_used =
                      sample(randbelow_stream(seed_int(d, treq.device_id)))

\* C20: a reply of the Rewriter that holds no JSON where JSON is required
\* makes the request fail: no successful answer and no cache file carries
\* the untranslated text of the FactSource.
RewriterShapeEnforced ==
    /\ (treq.pc = "done" /\ tresp # NoResp /\ tresp.status = 200) =>
          tresp.body.text = "es"
    /\ \A f \in Paths : files[f] # NoFile => files[f].text = "es"

(***************************************************************************)
(* Further properties of the horoscope endpoints (specification Spec).     *)
(***************************************************************************)
\* the entries the two caches hold
StoredEntries ==
    ({CACHE[k] : k \in CacheKeys} \cup {CACHE_DETAILED[d] : d \in Days}) \ {NoEntry}

\* C14: the _cached flag of a successful horoscope response is true exactly
\* when the response was served from the cache, no task having run, and false
\* exactly when the fan-out ran for the request; a hit leaves the stored
\* entry as it was, and the _cached field of every stored entry is false.
CachedFlagExact ==
    /\ (req.phase = "done" /\ resp.status = 200) =>
          /\ resp._cached <=> (HadEntry /\ ~req.force)
          /\ resp._cached <=> FactInvoked = {}
          /\ ~resp._cached <=> FactInvoked = SIGNS_ES
          /\ resp._cached => CacheGet(req.ep, req.date_key) = req.pre
    /\ \A e \in StoredEntries : e._cached = FALSE

\* a hit answered with the flag set, from an entry whose flag is not
HitFlagged ==
    /\ req.phase = "done" /\ resp.status = 200 /\ resp._cached
    /\ CacheGet(req.ep, req.date_key) # NoEntry
    /\ CacheGet(req.ep, req.date_key)._cached = FALSE

\* signs whose task has been started
Started == {s \in SIGNS_ES : runs[s] > 0}

\* signs whose task has returned or raised
Completed == {s \in SIGNS_ES : task[s] \in Finished}

\* C17: within one fan-out at most MaxWorkers per-sign tasks (8 in the
\* source) are running at any moment, a waiting sign has not been started, and
\* no more signs have been started than the pool is wide plus the number of
\* tasks that have completed.
PoolBounded ==
    /\ Cardinality(Running(task)) <= MaxWorkers
    /\ \A s \in Queued(task) : runs[s] = 0
    /\ Cardinality(Started) <= MaxWorkers + Cardinality(Completed)

\* the pool is full and a sign waits
PoolFull ==
    /\ Cardinality(Running(task)) = MaxWorkers
    /\ Queued(task) # {}

\* C18 as stated: each task's result lands only in its own sign's slot, and
\* the slots are put into the result mapping only after all tasks have
\* completed.
SlotsMergedAfterAll ==
    /\ signs_out \subseteq {s \in SIGNS_ES : task[s] = "taken"}
    /\ signs_out # {} => Completed = SIGNS_ES

\* C18 amended: each task's result lands only in its own sign's slot of the
\* result mapping, which the request thread fills as the tasks complete; the
\* mapping is stored and answered only after all tasks have completed.
SlotsOwnPublishedAfterAll ==
    /\ signs_out = {s \in SIGNS_ES : task[s] = "taken"}
    /\ (req.phase = "done" /\ resp.status = 200 /\ ~resp._cached) =>
          /\ Completed = SIGNS_ES
          /\ resp.signs = signs_out
          /\ CacheGet(req.ep, req.date_key).signs = signs_out

\* a slot is filled while another task is still running
SlotFilledWhileRunning ==
    /\ signs_out # {}
    /\ Running(task) # {}

\* C19: when a required credential is missing, a request that is not served
\* from the cache makes no network call to the FactSource or the Rewriter and
\* is answered with a structured server-side error, never with a success.
MissingCredentialFailsFast ==
    (req.phase = "done" /\ ~resp._cached /\ (~env.astro \/ ~env.openai)) =>
        /\ factCalls = {}
        /\ rewCalls = {}
        /\ resp.status = 500
        /\ resp.structured

(***************************************************************************)
(* Properties of the article endpoint (specification SpecArticle).         *)
(***************************************************************************)
\* C15: a request that reads the cache file of today while another request
\* writes it sees no entry and recomputes, or is answered with a complete
\* document; it never fails and never answers with a partly written one.
ConcurrentReadsSafe ==
    \A h \in Handlers :
        (areq[h].pc = "done" /\ areq[h].cached) =>
            /\ areq[h].status = 200
            /\ areq[h].body \in Documents

(***************************************************************************)
(* Properties of concurrent horoscope requests (specification SpecRace).   *)
(***************************************************************************)
\* C16: two cache-miss requests for the same day and endpoint served at the
\* same time may both run the fan-out and both write; the entry of the key
\* is then the complete result of one request, the one that wrote last, and
\* no entry ever mixes the signs of two computations.
LastWriteWins ==
    /\ \A e \in StoredEntries : e.signs = FullResult(e.gen)
    /\ rlast # NoStore =>
          CacheGet(rlast.ep, rlast.date_key) =
              Entry(rlast.date_key, FullResult(rlast.gen), rlast.gen)

\* both requests ran the fan-out and wrote the same key, and the one that
\* arrived first wrote last
BothWrote ==
    /\ \A h \in Handlers : race[h].pc = "done" /\ race[h].status = 200
                           /\ ~race[h].cached
    /\ race[1].ep = race[2].ep
    /\ race[1].date_key = race[2].date_key
    /\ rlast # NoStore
    /\ rlast.gen = race[1].gen
    /\ race[1].gen < race[2].gen
    /\ CacheGet(rlast.ep, rlast.date_key).gen = rlast.gen

(***************************************************************************)
(* Properties of the translate functions (specification SpecTranslate).    *)
(***************************************************************************)
\* C21: each translate function deals with every kind of Rewriter failure
\* (the call raised, the content is not the JSON object asked for) in one
\* way: it lets all of them propagate or it falls back to the source text on
\* all of them, never the one on some and the other on others.
RewriterPolicySingle ==
    \A fn \in TranslateFunctions : Cardinality(handled[fn]) <= 1

\* translate_sections_to_es has reached the Rewriter and has returned
SectionsReturned ==
    /\ pcall # NoCall
    /\ pcall.fn = "translate_sections_to_es"
    /\ ~pcall.result.raised

\* C28: translate_sections_to_es returns a mapping with exactly the keys of
\* its input sections: for an empty input, for the raw fallback, without
\* OPENAI_API_KEY, for a reply that is a JSON object (also one that lacks or
\* adds keys) and for a reply that is not.
SectionKeysPreserved ==
    SectionsReturned => DOMAIN pcall.result.value = DOMAIN pcall.input

\* a reply that is a JSON object lacking a key of the input and adding one
ReplyLackedAndAddedKeys ==
    /\ SectionsReturned
    /\ pcall.reply.kind = "object"
    /\ "extra" \in DOMAIN pcall.reply.value
    /\ \E k \in DOMAIN pcall.input : k \notin DOMAIN pcall.reply.value
    /\ \E k \in DOMAIN pcall.input : k \in DOMAIN pcall.reply.value

(***************************************************************************)
(* Properties of /moon-today (specification SpecMoon).                     *)
(***************************************************************************)
\* the facts of the request have been fetched and normalised
MoonFactsFetched == mreq.pc \in {"rewrite", "done"} /\ mreq.error = ""

DistanceSources == {"distance", "apogee_distance", "perigee_distance"}

\* C27: normalize_lunar_metrics always returns a mapping that holds a numeric
\* distance_km and a distance_source, and distance_source is one of
\* "distance", "apogee_distance" and "perigee_distance": the name of the
\* input field whose value is distance_km.
NormalizedDistance ==
    MoonFactsFetched =>
        /\ {"distance_km", "distance_source"} \subseteq DOMAIN mreq.metrics
        /\ mreq.metrics["distance_km"].t = "num"
        /\ mreq.metrics["distance_source"].t = "str"
        /\ mreq.metrics["distance_source"].s \in DistanceSources
        /\ mreq.metrics["distance_km"] =
              to_num(Get(mreq.lunar_metrics, mreq.metrics["distance_source"].s, None))

\* C26: a credential rejected by the FactSource or by the Rewriter is
\* answered with a status or an error that differs from the answer to a
\* generic failure and from the answer to a connectivity failure of the same
\* upstream.
AuthRejectionDistinct ==
    (mreq.pc = "done" /\ mreq.outcome = "auth") =>
        \A o \in {"http", "conn", "other"} :
            LET a == IF mreq.step = "facts" THEN facts_except(o)
                     ELSE rewrite_except(o) IN
            a.status # mreq.status \/ a.error # mreq.error

(***************************************************************************)
(* Further properties of the article endpoint (specification SpecArticle). *)
(***************************************************************************)
\* C22: a failure to write the cache file never reaches the caller: the
\* request is answered with the payload it computed, as it would be had the
\* write succeeded, and the next request finds no entry and recomputes (here:
\* after the only request served so far, the file is absent or a document
\* the next request can load).
WriteFailureRecomputes ==
    \A h \in Handlers :
        (nreq = 1 /\ areq[h].pc = "done" /\ areq[h].status = 200
         /\ ~areq[h].cached) =>
            /\ areq[h].body = ArticleData(h)
            /\ \/ afiles[areq[h].day] = NoFile
               \/ json_load(afiles[areq[h].day]).status = 200

(***************************************************************************)
(* Order of the steps of a request (specification SpecSteps).              *)
(***************************************************************************)
Has(s, x) == \E i \in 1 .. Len(s) : s[i] = x

\* every x of s has a y somewhere before it
Preceded(s, x, y) ==
    \A i \in 1 .. Len(s) : s[i] = x => \E j \in 1 .. i - 1 : s[j] = y

StepsInOrder(s) ==
    /\ \A i \in 1 .. Len(s) : s[i] = "read" => i = 1
    /\ \A i \in 1 .. Len(s) : s[i] = "resp" => i = Len(s)
    /\ Preceded(s, "rew_ok", "fact_ok")
    /\ Preceded(s, "rew_failed", "fact_ok")
    /\ Preceded(s, "write", "fact_ok")
    /\ Preceded(s, "write", "rew_ok")
    /\ (Has(s, "fact_failed") \/ Has(s, "rew_failed")) => ~Has(s, "write")

FreshByDateKey ==
    /\ \A k \in CacheKeys : CACHE[k] # NoEntry => CACHE[k].date_key = k[2]
    /\ \A d \in Days : CACHE_DETAILED[d] # NoEntry => CACHE_DETAILED[d].date_key = d
    /\ req.phase # "idle" => req.date_key = today
    /\ (req.phase = "done" /\ resp.status = 200) =>
          /\ resp.date_key = req.date_key
          /\ resp._cached => (req.pre # NoEntry /\ req.pre.date_key = req.date_key)
          /\ req.pre = NoEntry => (~resp._cached /\ resp.gen = nreq)

\* a request recomputed although an entry of an earlier day was stored
StaleEntryIgnored ==
    /\ req.phase = "done" /\ resp.status = 200 /\ ~resp._cached /\ ~req.force
    /\ req.date_key > 1
    /\ \E d \in Days : d < req.date_key /\ CacheGet(req.ep, d) # NoEntry

\* the step changes the entry of a key from old to new
Replaced(old, new, own) ==
    /\ old # NoEntry => new # NoEntry
    /\ new # old =>
          /\ own
          /\ req'.phase = "done" /\ resp'.status = 200 /\ ~resp'._cached
          /\ new = Entry(req.date_key, SIGNS_ES, nreq)

\* C24: no step removes a key from a cache, and the payload under a key
\* changes only by the assignment of the complete result of a later
\* successful computation for that key; a stored payload is never modified.
CacheLifecycle ==
    [][/\ \A k \in CacheKeys :
            Replaced(CACHE[k], CACHE'[k],
                     req.ep # "detailed" /\ k = CacheKey(req.ep, req.date_key))
       /\ \A d \in Days :
            Replaced(CACHE_DETAILED[d], CACHE_DETAILED'[d],
                     req.ep = "detailed" /\ d = req.date_key)]_vars

\* the complete result of a later computation has taken the place of an entry
EntryReplacedWholesale ==
    /\ req.phase = "done" /\ resp.status = 200
    /\ req.pre # NoEntry
    /\ CacheGet(req.ep, req.date_key) = Entry(req.date_key, SIGNS_ES, nreq)
    /\ req.pre.gen < nreq
    /\ req.pre.signs = SIGNS_ES

\* C25 (first part): every outbound call of the FactSource and of the
\* Rewriter made for a request carries an explicit timeout.
OutboundCallsTimed ==
    /\ factCalls # {} => fact_call_timeout(req.ep).explicit
    /\ rewCalls # {} => rewriter_call_timeout(req.ep).explicit

\* C30: a request whose fan-out fails, started by a forced refresh or by a
\* miss, leaves both caches as they were before it: no step of it changes
\* them, and the entry of today's key is after the failure what it was before
\* the request; a request served from the cache is answered with the stored
\* entry.
FailureLeavesCache ==
    [][/\ (req'.phase # "idle" /\ ~(req'.phase = "done" /\ resp'.status = 200)) =>
             UNCHANGED <<CACHE, CACHE_DETAILED>>
       /\ (req'.phase = "done" /\ resp'.status # 200) =>
             (IF req'.ep = "detailed" THEN CACHE_DETAILED'[req'.date_key]
              ELSE CACHE'[CacheKey(req'.ep, req'.date_key)]) = req'.pre
       /\ (req'.phase = "done" /\ resp'.status = 200 /\ resp'._cached) =>
             /\ UNCHANGED <<CACHE, CACHE_DETAILED>>
             /\ resp' = [OkResponse(req'.pre, FALSE) EXCEPT !._cached = TRUE]]_vars

\* a forced refresh failed and the entry stored before it is still there
RefreshFailedEntryKept ==
    /\ req.phase = "done" /\ req.force /\ resp.status # 200
    /\ req.pre # NoEntry
    /\ CacheGet(req.ep, req.date_key) = req.pre


(***************************************************************************)
(* C31.  Day consistency of a tarot entry: every entry written under the   *)
(* cache key of day d has its date field equal to d and, when it was drawn *)
(* without live=1, numbers_used equal to the deterministic draw seeded     *)
(* with day d, also when the calendar day changes while the request is     *)
(* being processed.                                                        *)
(***************************************************************************)
TarotEntryDayConsistent ==
    \A p \in Paths :
        files[p] # NoFile =>
            /\ files[p].date = p[1]
            /\ ~files[p].live =>
                   files[p].numbers_used =
                       sample(randbelow_stream(
                           seed_int(p[1], files[p].device_id_used)))

\* extract_advice_and_truth has been called
Extracted == pcall # NoCall /\ pcall.fn = "extract_advice_and_truth"

\* a text without the whitespace before its first and after its last other
\* character
TrimmedText(p) ==
    LET nz == {i \in 1 .. Len(p) : p[i] \notin Whitespace} IN
    IF nz = {} THEN <<>>
    ELSE SubSeq(p, CHOOSE i \in nz : \A j \in nz : i <= j,
                   CHOOSE i \in nz : \A j \in nz : j <= i)

\* position i of a text lies in a delimiter: a period followed by whitespace,
\* or the whitespace that follows such a period
InDelimiter(t, i) ==
    \E j \in 1 .. i :
        /\ t[j] = "."
        /\ j < Len(t)
        /\ t[j + 1] \in Whitespace
        /\ \A k \in j + 1 .. i : t[k] \in Whitespace

\* the sentences of a text: the longest stretches between delimiters that
\* hold more than whitespace
SentenceSpans(t) ==
    {ab \in (1 .. Len(t)) \X (1 .. Len(t)) :
        /\ ab[1] <= ab[2]
        /\ \A i \in ab[1] .. ab[2] : ~InDelimiter(t, i)
        /\ ab[1] = 1 \/ InDelimiter(t, ab[1] - 1)
        /\ ab[2] = Len(t) \/ InDelimiter(t, ab[2] + 1)
        /\ TrimmedText(SubSeq(t, ab[1], ab[2])) # <<>>}

\* the k-th sentence of a text
Sentence(t, k) ==
    LET spans == SentenceSpans(t)
        ab == CHOOSE x \in spans :
                  Cardinality({y \in spans : y[1] < x[1]}) = k - 1 IN
    TrimmedText(SubSeq(t, ab[1], ab[2]))

=============================================================================
